---- MODULE Spec2Model ----
(***************************************************************************)
(* A model of date_renamer.renamer.DateFileRenamer: the regular-expression *)
(* pattern table, extract_datetime, extract_date, rename_file and          *)
(* process_directory.  File names are sequences of one-character strings.  *)
(* Python's None is modelled as the empty sequence: the code only tests    *)
(* the truthiness of a stamp, and a stamp that was found is never empty.   *)
(***************************************************************************)
EXTENDS Integers, Sequences, FiniteSets, TLC

\* ------------------------------------------------------------- characters

None == << >>

Digit == {"0", "1", "2", "3", "4", "5", "6", "7", "8", "9"}

DigitVal(c) ==
    CASE c = "0" -> 0 [] c = "1" -> 1 [] c = "2" -> 2 [] c = "3" -> 3
      [] c = "4" -> 4 [] c = "5" -> 5 [] c = "6" -> 6 [] c = "7" -> 7
      [] c = "8" -> 8 [] c = "9" -> 9

DigitChar(n) ==
    CASE n = 0 -> "0" [] n = 1 -> "1" [] n = 2 -> "2" [] n = 3 -> "3"
      [] n = 4 -> "4" [] n = 5 -> "5" [] n = 6 -> "6" [] n = 7 -> "7"
      [] n = 8 -> "8" [] n = 9 -> "9"

\* int() of a run of decimal digits
RECURSIVE ToInt(_)
ToInt(s) ==
    IF s = << >> THEN 0
    ELSE 10 * ToInt(SubSeq(s, 1, Len(s) - 1)) + DigitVal(s[Len(s)])

LowerCase == << "a", "b", "c", "d", "e", "f", "g", "h", "i", "j", "k", "l", "m",
                "n", "o", "p", "q", "r", "s", "t", "u", "v", "w", "x", "y", "z" >>

UpperCase == << "A", "B", "C", "D", "E", "F", "G", "H", "I", "J", "K", "L", "M",
                "N", "O", "P", "Q", "R", "S", "T", "U", "V", "W", "X", "Y", "Z" >>

\* str.upper() and str.lower() on one character
LowerSet == {LowerCase[k] : k \in DOMAIN LowerCase}

UpperSet == {UpperCase[k] : k \in DOMAIN UpperCase}

Letters == LowerSet \cup UpperSet

ToUpper(c) ==
    IF c \in LowerSet
    THEN UpperCase[CHOOSE k \in DOMAIN LowerCase : LowerCase[k] = c]
    ELSE c

ToLower(c) ==
    IF c \in UpperSet
    THEN LowerCase[CHOOSE k \in DOMAIN UpperCase : UpperCase[k] = c]
    ELSE c

Upper(s) == [k \in DOMAIN s |-> ToUpper(s[k])]

\* str.capitalize(): first character upper-cased, the rest lower-cased
Capitalize(s) == [k \in DOMAIN s |-> IF k = 1 THEN ToUpper(s[k]) ELSE ToLower(s[k])]

\* the Python test `a in b` on strings
Contains(a, b) ==
    \E i \in 1..(Len(b) - Len(a) + 1) : SubSeq(b, i, i + Len(a) - 1) = a

\* str.zfill(2)
Zfill2(s) == IF Len(s) >= 2 THEN s ELSE IF Len(s) = 1 THEN << "0" >> \o s ELSE << "0", "0" >>

\* str.strip() of the padding blanks
RECURSIVE Strip(_)
Strip(s) ==
    IF s = << >> THEN s
    ELSE IF s[1] = " " THEN Strip(Tail(s))
    ELSE IF s[Len(s)] = " " THEN Strip(SubSeq(s, 1, Len(s) - 1))
    ELSE s

Min(S) == CHOOSE x \in S : \A y \in S : x <= y

\* the element of a one-element set: The({e : x \in {v}}) is e with x
\* standing for the value v, worked out once, as a local variable is
The(S) == CHOOSE x \in S : TRUE

\* ---------------------------------------------------------- pattern table

\* month_names, in the order of the alternation; month_map gives the k-th
\* name the two-digit number k
month_names == << << "J", "a", "n" >>, << "F", "e", "b" >>, << "M", "a", "r" >>,
                  << "A", "p", "r" >>, << "M", "a", "y" >>, << "J", "u", "n" >>,
                  << "J", "u", "l" >>, << "A", "u", "g" >>, << "S", "e", "p" >>,
                  << "O", "c", "t" >>, << "N", "o", "v" >>, << "D", "e", "c" >> >>

month_map(name) ==
    LET k == CHOOSE n \in DOMAIN month_names : month_names[n] = name
    IN  << DigitChar(k \div 10), DigitChar(k % 10) >>

IsDigitAt(t, i) == i >= 1 /\ i <= Len(t) /\ t[i] \in Digit

\* \d{n} at position i
DigitsAt(t, i, n) == \A k \in 0..(n - 1) : IsDigitAt(t, i + k)

\* [-_] at position i
IsSepAt(t, i) == i >= 1 /\ i <= Len(t) /\ t[i] \in {"-", "_"}

\* [-,_] at position i
IsCommaSepAt(t, i) == i >= 1 /\ i <= Len(t) /\ t[i] \in {"-", ",", "_"}

\* the month names upper-cased, as the case-insensitive comparisons see them
MonthsUpper == {Upper(month_names[n]) : n \in DOMAIN month_names}

\* (?:Jan|Feb|...|Dec) at position i under re.IGNORECASE
MonthAt(t, i) ==
    /\ i >= 1
    /\ i + 2 <= Len(t)
    /\ t[i] \in Letters
    /\ Upper(SubSeq(t, i, i + 2)) \in MonthsUpper

NoMatch == [start |-> 0, stop |-> 0, groups |-> << >>]

\* r'(\d{4})[-_](\d{2})[-_](\d{2})'
MatchYmdSep(t, i) ==
    IF /\ DigitsAt(t, i, 4) /\ IsSepAt(t, i + 4) /\ DigitsAt(t, i + 5, 2)
       /\ IsSepAt(t, i + 7) /\ DigitsAt(t, i + 8, 2)
    THEN [start |-> i, stop |-> i + 9,
          groups |-> << SubSeq(t, i, i + 3), SubSeq(t, i + 5, i + 6), SubSeq(t, i + 8, i + 9) >>]
    ELSE NoMatch

\* r'(\d{2})[-_](\d{2})[-_](\d{4})'
MatchDmySep(t, i) ==
    IF /\ DigitsAt(t, i, 2) /\ IsSepAt(t, i + 2) /\ DigitsAt(t, i + 3, 2)
       /\ IsSepAt(t, i + 5) /\ DigitsAt(t, i + 6, 4)
    THEN [start |-> i, stop |-> i + 9,
          groups |-> << SubSeq(t, i, i + 1), SubSeq(t, i + 3, i + 4), SubSeq(t, i + 6, i + 9) >>]
    ELSE NoMatch

\* MatchYyyymmdd that also refuses a letter after the run
MatchYyyymmddNoLetterAfter(t, i) ==
    IF /\ ~IsDigitAt(t, i - 1) /\ DigitsAt(t, i, 8) /\ ~IsDigitAt(t, i + 8)
       /\ ~(i + 8 <= Len(t) /\ t[i + 8] \in Letters)
    THEN [start |-> i, stop |-> i + 7,
          groups |-> << SubSeq(t, i, i + 3), SubSeq(t, i + 4, i + 5), SubSeq(t, i + 6, i + 7) >>]
    ELSE NoMatch

\* r'(?<!\d)(\d{4})(\d{2})(\d{2})(?!\d)'
MatchYyyymmdd(t, i) ==
    IF ~IsDigitAt(t, i - 1) /\ DigitsAt(t, i, 8) /\ ~IsDigitAt(t, i + 8)
    THEN [start |-> i, stop |-> i + 7,
          groups |-> << SubSeq(t, i, i + 3), SubSeq(t, i + 4, i + 5), SubSeq(t, i + 6, i + 7) >>]
    ELSE NoMatch

\* r'(?<!\d)(\d{2})(\d{2})(\d{4})(?!\d)'
MatchMmddyyyy(t, i) ==
    IF ~IsDigitAt(t, i - 1) /\ DigitsAt(t, i, 8) /\ ~IsDigitAt(t, i + 8)
    THEN [start |-> i, stop |-> i + 7,
          groups |-> << SubSeq(t, i, i + 1), SubSeq(t, i + 2, i + 3), SubSeq(t, i + 4, i + 7) >>]
    ELSE NoMatch

\* (\d{2})(?!\d) at position y
YearAt(t, y) == DigitsAt(t, y, 2) /\ ~IsDigitAt(t, y + 2)

\* The two month-name patterns are matched as the backtracking matcher
\* does: each optional or counted item is tried long before short, and the
\* shorter way is taken only when the rest cannot be matched after the longer.
\* An operator below gives the position where the year starts, or 0.

\* [-_]?(\d{2})(?!\d) from position j
YearAfterSep(t, j) ==
    IF IsSepAt(t, j) /\ YearAt(t, j + 1) THEN j + 1
    ELSE IF YearAt(t, j) THEN j
    ELSE 0

\* ({month_names})[-_]?(\d{2})(?!\d) from position m
YearAfterMonth(t, m) == IF MonthAt(t, m) THEN YearAfterSep(t, m + 3) ELSE 0

\* [-_]?({month_names})[-_]?(\d{2})(?!\d) from position j: where the month starts
MonthAfterSep(t, j) ==
    IF IsSepAt(t, j) /\ YearAfterMonth(t, j + 1) # 0 THEN j + 1
    ELSE IF YearAfterMonth(t, j) # 0 THEN j
    ELSE 0

\* rf'(\d{{1,2}})[-_]?({month_names})[-_]?(\d{{2}})(?!\d)'
MatchDMonY(t, i) ==
    The({ IF d = 0 THEN NoMatch
          ELSE The({ The({ [start |-> i, stop |-> y + 1,
                            groups |-> << SubSeq(t, i, i + d - 1), SubSeq(t, m, m + 2),
                                          SubSeq(t, y, y + 1) >>]
                         : y \in {YearAfterMonth(t, m)} })
                   : m \in {MonthAfterSep(t, i + d)} })
        : d \in { IF DigitsAt(t, i, 2) /\ MonthAfterSep(t, i + 2) # 0 THEN 2
                  ELSE IF IsDigitAt(t, i) /\ MonthAfterSep(t, i + 1) # 0 THEN 1
                  ELSE 0 } })

\* [-,_]?(\d{2})(?!\d) from position j
YearAfterCommaSep(t, j) ==
    IF IsCommaSepAt(t, j) /\ YearAt(t, j + 1) THEN j + 1
    ELSE IF YearAt(t, j) THEN j
    ELSE 0

\* (\d{1,2})[-,_]?(\d{2})(?!\d) from position j: the number of day digits
DayDigits(t, j) ==
    IF DigitsAt(t, j, 2) /\ YearAfterCommaSep(t, j + 2) # 0 THEN 2
    ELSE IF IsDigitAt(t, j) /\ YearAfterCommaSep(t, j + 1) # 0 THEN 1
    ELSE 0

\* rf'({month_names})[-_]?(\d{{1,2}})[-,_]?(\d{{2}})(?!\d)'
MatchMonDY(t, i) ==
    The({ IF j = 0 THEN NoMatch
          ELSE The({ The({ [start |-> i, stop |-> y + 1,
                            groups |-> << SubSeq(t, i, i + 2), SubSeq(t, j, j + d - 1),
                                          SubSeq(t, y, y + 1) >>]
                         : y \in {YearAfterCommaSep(t, j + d)} })
                   : d \in {DayDigits(t, j)} })
        : j \in { IF ~MonthAt(t, i) THEN 0
                  ELSE IF IsSepAt(t, i + 3) /\ DayDigits(t, i + 4) # 0 THEN i + 4
                  ELSE IF DayDigits(t, i + 3) # 0 THEN i + 3
                  ELSE 0 } })

\* r'(\d{4})(\d{2})(\d{2})[-_](\d{2})(\d{2})(\d{2})(\d{3})?'
\* the seventh group is None when the optional group did not take part
MatchDatetime(t, i) ==
    IF DigitsAt(t, i, 8) /\ IsSepAt(t, i + 8) /\ DigitsAt(t, i + 9, 6)
    THEN LET ms == DigitsAt(t, i + 15, 3)
         IN  [start |-> i, stop |-> IF ms THEN i + 17 ELSE i + 14,
              groups |-> << SubSeq(t, i, i + 3), SubSeq(t, i + 4, i + 5),
                            SubSeq(t, i + 6, i + 7), SubSeq(t, i + 9, i + 10),
                            SubSeq(t, i + 11, i + 12), SubSeq(t, i + 13, i + 14),
                            IF ms THEN SubSeq(t, i + 15, i + 17) ELSE None >>]
    ELSE NoMatch

\* date_patterns with MMDDYYYY ahead of YYYYMMDD
date_patterns_swapped == << "ymd_sep", "dmy_sep", "mmddyyyy", "yyyymmdd", "d_mon_y", "mon_d_y" >>

\* self.date_patterns: the keys of the dict, in insertion order
date_patterns == << "ymd_sep", "dmy_sep", "yyyymmdd", "mmddyyyy", "d_mon_y", "mon_d_y" >>

\* self.datetime_patterns
datetime_patterns == << "yyyymmdd_hhmmss" >>

MatchAt(p, t, i) ==
    CASE p = "ymd_sep" -> MatchYmdSep(t, i)
      [] p = "dmy_sep" -> MatchDmySep(t, i)
      [] p = "yyyymmdd" -> MatchYyyymmdd(t, i)
      [] p = "mmddyyyy" -> MatchMmddyyyy(t, i)
      [] p = "d_mon_y" -> MatchDMonY(t, i)
      [] p = "mon_d_y" -> MatchMonDY(t, i)
      [] p = "yyyymmdd_hhmmss" -> MatchDatetime(t, i)

\* re.search(pattern, text, re.IGNORECASE): the leftmost match, or none
RECURSIVE SearchFrom(_, _, _)
SearchFrom(p, t, i) ==
    IF i > Len(t) THEN NoMatch
    ELSE The({ IF m.start # 0 THEN m ELSE SearchFrom(p, t, i + 1)
             : m \in {MatchAt(p, t, i)} })

ReSearch(p, t) == SearchFrom(p, t, 1)

\* match.group()
Group0(t, m) == SubSeq(t, m.start, m.stop)

\* search_text = f" {filename} "
SearchText(filename) == << " " >> \o filename \o << " " >>

\* --------------------------------------------------- datetime.strptime

IsLeap(y) == y % 4 = 0 /\ (y % 100 # 0 \/ y % 400 = 0)

DaysInMonth(y, m) ==
    IF m = 2 THEN (IF IsLeap(y) THEN 29 ELSE 28)
    ELSE IF m \in {4, 6, 9, 11} THEN 30 ELSE 31

\* The regular expressions strptime compiles for the directives after %Y:
\* each takes two digits in its range, or else one digit.
\*   %m 1[0-2]|0[1-9]|[1-9]     %d 3[01]|[12]\d|0[1-9]|[1-9]
\*   %H 2[0-3]|[0-1]\d|\d       %M [0-5]\d|\d       %S 6[0-1]|[0-5]\d|\d
DirectiveFits(f, s, i, w) ==
    IF w = 2
    THEN /\ DigitsAt(s, i, 2)
         /\ LET v == ToInt(SubSeq(s, i, i + 1))
            IN  CASE f = "m" -> v \in 1..12
                  [] f = "d" -> v \in 1..31
                  [] f = "H" -> v \in 0..23
                  [] f = "M" -> v \in 0..59
                  [] f = "S" -> v \in 0..61
    ELSE /\ IsDigitAt(s, i)
         /\ (f \in {"m", "d"} => s[i] # "0")

NoParse == [ok |-> FALSE, vals |-> << >>, stop |-> 0]

\* The directives fs[k..] matched from position pos on, as the backtracking
\* matcher does: the two-digit alternative first, the one-digit one when
\* the rest cannot be matched after it.  vals are the fields read so far.
RECURSIVE MatchDirectives(_, _, _, _, _)
MatchDirectives(fs, s, k, pos, vals) ==
    IF k > Len(fs) THEN [ok |-> TRUE, vals |-> vals, stop |-> pos]
    ELSE The({ IF two.ok THEN two
               ELSE IF DirectiveFits(fs[k], s, pos, 1)
               THEN MatchDirectives(fs, s, k + 1, pos + 1, Append(vals, DigitVal(s[pos])))
               ELSE NoParse
             : two \in { IF DirectiveFits(fs[k], s, pos, 2)
                         THEN MatchDirectives(fs, s, k + 1, pos + 2,
                                              Append(vals, ToInt(SubSeq(s, pos, pos + 1))))
                         ELSE NoParse } })

\* Strptime without the checks of the datetime constructor: the directives'
\* own ranges only (day 1..31 in any month, second up to 61)
StrptimeRangesOnly(s, fs) ==
    /\ DigitsAt(s, 1, 4)
    /\ \E r \in {MatchDirectives(fs, s, 1, 5, << >>)} :
          r.ok /\ r.stop - 1 = Len(s)

\* datetime.strptime(s, fmt) for fmt = %Y followed by the directives fs:
\* TRUE when it returns, FALSE when it raises ValueError (no match,
\* unconverted data, or a field the datetime constructor rejects)
Strptime(s, fs) ==
    /\ DigitsAt(s, 1, 4)
    /\ \E r \in {MatchDirectives(fs, s, 1, 5, << >>)}, year \in {ToInt(SubSeq(s, 1, 4))} :
          /\ r.ok
          /\ r.stop - 1 = Len(s)
          /\ year >= 1
          /\ r.vals[2] <= DaysInMonth(year, r.vals[1])
          /\ (Len(fs) >= 5 => r.vals[5] <= 59)

\* ------------------------------------------------------- extract_datetime

\* one turn of the loop over datetime_patterns, then the rest of the loop
RECURSIVE ExtractDatetimeFrom(_, _)
ExtractDatetimeFrom(filename, k) ==
    IF k > Len(datetime_patterns)
    THEN [datetime_str |-> None, matched_str |-> None, has_time |-> FALSE]
    ELSE The({ LET g == match.groups
                   milliseconds == g[7]
                   full_datetime_str == g[1] \o g[2] \o g[3] \o g[4] \o g[5] \o g[6]
                   iso_str == g[1] \o g[2] \o g[3] \o << "T" >> \o g[4] \o g[5] \o g[6]
                              \o (IF milliseconds # None THEN << "." >> \o milliseconds
                                  ELSE << >>)
               IN  IF match.start # 0 /\ Len(g) >= 6
                      /\ Strptime(full_datetime_str, << "m", "d", "H", "M", "S" >>)
                   THEN [datetime_str |-> iso_str,
                         matched_str |-> Strip(Group0(search_text, match)),
                         has_time |-> TRUE]
                   ELSE ExtractDatetimeFrom(filename, k + 1)
             : search_text \in {SearchText(filename)},
               match \in {ReSearch(datetime_patterns[k], SearchText(filename))} })

extract_datetime(filename) == ExtractDatetimeFrom(filename, 1)

\* ----------------------------------------------------------- extract_date

HasMonthName(g) == \E m \in MonthsUpper : Contains(m, Upper(g))

\* Interpret with a run of eight digits that is no YYYYMMDD always read as
\* MMDDYYYY
InterpretAlwaysMonthFirst(groups, matched_str) ==
    IF HasMonthName(groups[2])
    THEN [year |-> << "2", "0" >> \o groups[3],
          month |-> month_map(Capitalize(groups[2])),
          day |-> Zfill2(groups[1])]
    ELSE IF HasMonthName(groups[1])
    THEN [year |-> << "2", "0" >> \o groups[3],
          month |-> month_map(Capitalize(groups[1])),
          day |-> Zfill2(groups[2])]
    ELSE IF Len(groups[1]) = 4
    THEN [year |-> groups[1], month |-> groups[2], day |-> groups[3]]
    ELSE IF \E i \in DOMAIN matched_str : matched_str[i] \in {"-", "_"}
    THEN [year |-> groups[3], month |-> groups[2], day |-> groups[1]]
    ELSE [year |-> groups[3], month |-> groups[1], day |-> groups[2]]

\* the year, month and day the code reads out of the three groups
Interpret(groups, matched_str) ==
    IF HasMonthName(groups[2])
    THEN [year |-> IF Len(groups[3]) = 2 THEN << "2", "0" >> \o groups[3] ELSE groups[3],
          month |-> month_map(Capitalize(groups[2])),
          day |-> IF Len(groups[1]) = 1 THEN Zfill2(groups[1]) ELSE groups[1]]
    ELSE IF HasMonthName(groups[1])
    THEN [year |-> IF Len(groups[3]) = 2 THEN << "2", "0" >> \o groups[3] ELSE groups[3],
          month |-> month_map(Capitalize(groups[1])),
          day |-> IF Len(groups[2]) = 1 THEN Zfill2(groups[2]) ELSE groups[2]]
    ELSE IF \E i \in DOMAIN matched_str : matched_str[i] \in {"-", "_"}
    THEN IF Len(groups[1]) = 4
         THEN [year |-> groups[1], month |-> groups[2], day |-> groups[3]]
         ELSE [year |-> groups[3], month |-> groups[2], day |-> groups[1]]
    ELSE IF Len(groups[1]) = 4
         THEN [year |-> groups[1], month |-> groups[2], day |-> groups[3]]
         ELSE LET first_two == ToInt(groups[1])
              IN  IF 1 <= first_two /\ first_two <= 12
                  THEN [year |-> groups[3], month |-> groups[1], day |-> groups[2]]
                  ELSE [year |-> groups[3], month |-> groups[2], day |-> groups[1]]

\* date_str = f"{year}{month.zfill(2)}{day.zfill(2)}"
DateStr(r) == r.year \o Zfill2(r.month) \o Zfill2(r.day)

\* one turn of the loop over date_patterns, then the rest of the loop
RECURSIVE ExtractDateFrom(_, _)
ExtractDateFrom(filename, k) ==
    IF k > Len(date_patterns)
    THEN [date_str |-> None, matched_str |-> None]
    ELSE The({ IF match.start # 0 /\ Len(match.groups) = 3
               THEN The({ IF Strptime(date_str, << "m", "d" >>)
                          THEN [date_str |-> date_str,
                                matched_str |-> Strip(Group0(search_text, match))]
                          ELSE ExtractDateFrom(filename, k + 1)
                        : date_str \in {DateStr(Interpret(match.groups,
                                                          Group0(search_text, match)))} })
               ELSE ExtractDateFrom(filename, k + 1)
             : search_text \in {SearchText(filename)},
               match \in {ReSearch(date_patterns[k], SearchText(filename))} })

extract_date(filename) == ExtractDateFrom(filename, 1)

\* ------------------------------------------------------------ rename_file

IsDot(c) == c = "."

HasDot(filename) == \E i \in DOMAIN filename : IsDot(filename[i])

LastDot(filename) == CHOOSE i \in DOMAIN filename :
    IsDot(filename[i]) /\ \A j \in DOMAIN filename : IsDot(filename[j]) => j <= i

\* NameWithoutExt with the name cut at its first dot, as
\* filename.split('.', 1)[0] gives it
NameWithoutExtFirstDot(filename) ==
    IF HasDot(filename)
    THEN SubSeq(filename, 1, (CHOOSE i \in DOMAIN filename :
                     IsDot(filename[i]) /\ \A j \in 1..(i - 1) : ~IsDot(filename[j])) - 1)
    ELSE filename

\* filename.rsplit('.', 1)[0]
NameWithoutExt(filename) ==
    IF HasDot(filename) THEN SubSeq(filename, 1, LastDot(filename) - 1) ELSE filename

\* filename.split('.')[-1]
Ext(filename) ==
    IF HasDot(filename) THEN SubSeq(filename, LastDot(filename) + 1, Len(filename)) ELSE filename

\* The pattern [-_]? lit [-_]? with the separators present as pre and post
\* say (1 or 0), at position i of s
LiteralAt(s, i, lit, pre, post) ==
    /\ i + pre + Len(lit) - 1 <= Len(s)
    /\ (pre = 1 => IsSepAt(s, i))
    /\ SubSeq(s, i + pre, i + pre + Len(lit) - 1) = lit
    /\ (post = 1 => IsSepAt(s, i + pre + Len(lit)))

\* re.sub of that pattern (and str.replace, with pre = post = 0): every
\* non-overlapping occurrence, left to right, replaced by repl
RECURSIVE ReSubFrom(_, _, _, _, _, _)
ReSubFrom(s, i, lit, pre, post, repl) ==
    IF i > Len(s) THEN << >>
    ELSE IF LiteralAt(s, i, lit, pre, post)
    THEN repl \o ReSubFrom(s, i + pre + Len(lit) + post, lit, pre, post, repl)
    ELSE << s[i] >> \o ReSubFrom(s, i + 1, lit, pre, post, repl)

ReSub(s, lit, pre, post, repl) == ReSubFrom(s, 1, lit, pre, post, repl)

\* re.sub(r'[-_]+', '_', s)
RECURSIVE CollapseFrom(_, _)
CollapseFrom(s, i) ==
    IF i > Len(s) THEN << >>
    ELSE IF IsSepAt(s, i)
    THEN (IF IsSepAt(s, i - 1) THEN << >> ELSE << "_" >>) \o CollapseFrom(s, i + 1)
    ELSE << s[i] >> \o CollapseFrom(s, i + 1)

\* str.strip('_')
RECURSIVE StripUnderscores(_)
StripUnderscores(s) ==
    IF s = << >> THEN s
    ELSE IF s[1] = "_" THEN StripUnderscores(Tail(s))
    ELSE IF s[Len(s)] = "_" THEN StripUnderscores(SubSeq(s, 1, Len(s) - 1))
    ELSE s

\* NameWithoutDate with every strategy run on what the one before left,
\* whether or not that one changed the name
NameWithoutDateEveryStrategy(name_without_ext, matched_str) ==
    StripUnderscores(CollapseFrom(
        ReSub(ReSub(ReSub(ReSub(name_without_ext, matched_str, 1, 1, << "_" >>),
                          matched_str, 1, 0, << >>),
                    matched_str, 0, 1, << >>),
              matched_str, 0, 0, << >>), 1))

\* the four removal strategies: each later one runs only while the name
\* is still the one the first started from
NameWithoutDate(name_without_ext, matched_str) ==
    LET s1 == ReSub(name_without_ext, matched_str, 1, 1, << "_" >>)
        s2 == IF s1 = name_without_ext
              THEN ReSub(name_without_ext, matched_str, 1, 0, << >>) ELSE s1
        s3 == IF s2 = name_without_ext
              THEN ReSub(name_without_ext, matched_str, 0, 1, << >>) ELSE s2
        s4 == IF s3 = name_without_ext
              THEN ReSub(name_without_ext, matched_str, 0, 0, << >>) ELSE s3
    IN  StripUnderscores(CollapseFrom(s4, 1))

\* NewFilename with the piece after the first dot as the extension, as
\* filename.split('.')[1] gives it
NewFilenameSecondPiece(filename, date_str, matched_str) ==
    LET FirstDot(s) == CHOOSE i \in DOMAIN s :
                           IsDot(s[i]) /\ \A j \in 1..(i - 1) : ~IsDot(s[j])
        rest == SubSeq(filename, FirstDot(filename) + 1, Len(filename))
        piece == IF HasDot(rest) THEN SubSeq(rest, 1, FirstDot(rest) - 1) ELSE rest
    IN  date_str \o << "_" >> \o NameWithoutDate(NameWithoutExt(filename), matched_str)
            \o << "." >> \o (IF HasDot(filename) THEN piece ELSE filename)

\* new_filename = f"{date_str}_{name_without_date}.{ext}"
NewFilename(filename, date_str, matched_str) ==
    date_str \o << "_" >> \o NameWithoutDate(NameWithoutExt(filename), matched_str)
        \o << "." >> \o Ext(filename)

\* Extraction with the date tried first and the datetime as the fallback
ExtractionDateFirst(filename) ==
    The({ IF d.date_str # None
          THEN [date_str |-> d.date_str, matched_str |-> d.matched_str, has_time |-> FALSE]
          ELSE The({ [date_str |-> dt.datetime_str, matched_str |-> dt.matched_str,
                      has_time |-> dt.has_time]
                   : dt \in {extract_datetime(filename)} })
        : d \in {extract_date(filename)} })

\* the datetime first, the date only when there is no datetime
Extraction(filename) ==
    The({ IF dt.datetime_str # None
          THEN [date_str |-> dt.datetime_str, matched_str |-> dt.matched_str, has_time |-> TRUE]
          ELSE The({ [date_str |-> d.date_str, matched_str |-> d.matched_str,
                      has_time |-> FALSE]
                   : d \in {extract_date(filename)} })
        : dt \in {extract_datetime(filename)} })

\* ------------------------------------------------------------------ inputs

MaxTokens == 3
MaxRuns == 2
MaxFiles == 2

\* fillers, date and datetime candidates of every pattern, valid and invalid
Tokens == {
    << "a" >>,
    << "_" >>,
    << "." >>,
    << "1" >>,
    << "2", "0", "2", "4", "-", "0", "2", "-", "2", "9" >>,
    << "1", "5", "-", "0", "1", "-", "2", "0", "2", "4" >>,
    << "1", "3", "-", "4", "5", "-", "2", "0", "2", "4" >>,
    << "2", "0", "1", "1", "1", "2", "0", "1" >>,
    << "2", "0", "2", "3", "0", "2", "2", "9" >>,
    << "0", "3", "0", "4", "2", "0", "2", "4" >>,
    << "2", "5", "1", "2", "2", "0", "2", "3" >>,
    << "M", "a", "r", "_", "8", "_", "2", "1" >>,
    << "8", "M", "a", "r", "2", "1" >>,
    << "2", "0", "2", "4", "0", "3", "1", "5", "_", "1", "2", "0", "5", "3", "0" >>,
    << "2", "0", "2", "4", "0", "3", "1", "5", "_", "2", "5", "6", "1", "9", "9" >> }

RECURSIVE NamesOf(_)
NamesOf(n) ==
    IF n = 0 THEN {<< >>}
    ELSE LET shorter == NamesOf(n - 1)
         IN  shorter \cup {x \o t : x \in shorter, t \in Tokens}

\* file names of at most MaxTokens tokens; the empty name, "." and ".."
\* name no file
Filenames == NamesOf(MaxTokens) \ {<< >>, << "." >>, << ".", "." >>}

\* the files of the test fixtures, and files whose new names collide
DirNames == {
    << "i", "n", "v", "o", "i", "c", "e", "_", "1", "2", "-", "0", "3", "-", "2", "0", "2", "4", ".", "p", "d", "f" >>,
    << "n", "o", "_", "d", "a", "t", "e", "_", "f", "i", "l", "e", ".", "t", "x", "t" >>,
    << "a", "_", "2", "0", "2", "4", "-", "0", "1", "-", "1", "5", ".", "t" >>,
    << "a", "-", "2", "0", "2", "4", "-", "0", "1", "-", "1", "5", ".", "t" >>,
    << "2", "0", "2", "4", "0", "1", "1", "5", "_", "a", ".", "t" >>,
    << "r", "e", "p", "o", "r", "t", "_", "2", "0", "2", "4", "-", "0", "1", "-", "1", "5" >>,
    << "P", "X", "L", "_", "2", "0", "2", "6", "0", "2", "0", "4", "_", "1", "8", "1", "1", "5", "3", "6", "8", "3", ".", "M", "P", ".", "j", "p", "g" >>,
    << "r", "e", "p", "o", "r", "t", "_", "1", "3", "-", "4", "5", "-", "2", "0", "2", "4", ".", "t", "x", "t" >> }

\* directory / ".backup"
BackupDirName == << ".", "b", "a", "c", "k", "u", "p" >>

\* ------------------------------------------------------------------- state

VARIABLES
    dir,              \* the names of the entries of the directory
    posix,            \* whether Path.rename replaces an existing target
    backup_dir,       \* the constructor's argument: "default", "disabled", "custom"
    backup_location,  \* "unset" until process_directory sets it
    files,            \* process_directory: the listed files not yet processed
    pc,               \* "idle", "processing", "done"
    renamed_files,
    skipped_files,
    backup_files,
    runs,             \* direct calls of rename_file so far
    initial_files,    \* the directory as it was at the start
    last              \* the last call and what it computed

vars == << dir, posix, backup_dir, backup_location, files, pc, renamed_files,
           skipped_files, backup_files, runs, initial_files, last >>

NoCall == [op |-> "none", filename |-> None, date_str |-> None, matched_str |-> None,
           has_time |-> FALSE, new_filename |-> None]

\* self.backup_enabled = backup_dir is not False
backup_enabled == backup_dir # "disabled"

Constructed ==
    /\ backup_location = "unset"
    /\ files = {}
    /\ pc = "idle"
    /\ renamed_files = << >>
    /\ skipped_files = << >>
    /\ backup_files = << >>
    /\ runs = 0
    /\ initial_files = dir
    /\ last = NoCall

\* one file in a fresh directory, DateFileRenamer()
Init ==
    /\ \E f \in Filenames : dir = {f}
    /\ posix = TRUE
    /\ backup_dir = "default"
    /\ Constructed

\* a directory of fixture files, any constructor argument, either platform
InitDir ==
    /\ dir \in {d \in SUBSET DirNames : Cardinality(d) <= MaxFiles}
    /\ posix \in BOOLEAN
    /\ backup_dir \in {"default", "disabled", "custom"}
    /\ Constructed

\* ----------------------------------------------------------------- actions

\* extract_datetime called on the file name of a fresh fixture
ExtractDatetime ==
    /\ pc = "idle"
    /\ last = NoCall
    /\ \E filename \in dir : \E r \in {extract_datetime(filename)} :
              last' = [op |-> "extract_datetime", filename |-> filename,
                       date_str |-> r.datetime_str, matched_str |-> r.matched_str,
                       has_time |-> r.has_time, new_filename |-> None]
    /\ UNCHANGED << dir, posix, backup_dir, backup_location, files, pc, renamed_files,
                    skipped_files, backup_files, runs, initial_files >>

\* extract_date called on the file name of a fresh fixture
ExtractDate ==
    /\ pc = "idle"
    /\ last = NoCall
    /\ \E filename \in dir : \E r \in {extract_date(filename)} :
              last' = [op |-> "extract_date", filename |-> filename,
                       date_str |-> r.date_str, matched_str |-> r.matched_str,
                       has_time |-> FALSE, new_filename |-> None]
    /\ UNCHANGED << dir, posix, backup_dir, backup_location, files, pc, renamed_files,
                    skipped_files, backup_files, runs, initial_files >>

\* rename_file(filepath), for a path that is a file of the directory
rename_file(filename) ==
    /\ filename \in dir
    /\ filename # BackupDirName
    /\ \E e \in {Extraction(filename)} :
          IF e.date_str = None
          THEN /\ skipped_files' = Append(skipped_files, filename)
               /\ last' = [op |-> "rename_file", filename |-> filename, date_str |-> None,
                           matched_str |-> None, has_time |-> FALSE, new_filename |-> None]
               /\ UNCHANGED << dir, renamed_files, backup_files >>
          ELSE \E new_filename \in {NewFilename(filename, e.date_str, e.matched_str)} :
               LET backed_up == backup_enabled /\ backup_location # "unset"
                   os_error == ~posix /\ new_filename \in dir /\ new_filename # filename
               IN  /\ backup_files' = IF backed_up THEN Append(backup_files, filename)
                                      ELSE backup_files
                   /\ dir' = IF os_error THEN dir ELSE (dir \ {filename}) \cup {new_filename}
                   /\ renamed_files' = IF os_error THEN renamed_files
                                       ELSE Append(renamed_files, << filename, new_filename >>)
                   /\ last' = [op |-> "rename_file", filename |-> filename,
                               date_str |-> e.date_str, matched_str |-> e.matched_str,
                               has_time |-> e.has_time, new_filename |-> new_filename]
                   /\ UNCHANGED skipped_files

\* rename_file called directly, as the tests do
RenameFile ==
    /\ pc = "idle"
    /\ last.op \in {"none", "rename_file"}
    /\ runs < MaxRuns
    /\ \E filename \in dir : rename_file(filename)
    /\ runs' = runs + 1
    /\ UNCHANGED << posix, backup_dir, backup_location, files, pc, initial_files >>

\* process_directory up to its loop: the backup directory, the listing
ProcessDirectory ==
    /\ pc = "idle"
    /\ runs = 0
    /\ backup_location' = IF backup_enabled
                          THEN (IF backup_dir = "custom" THEN "custom" ELSE "default")
                          ELSE backup_location
    /\ dir' = IF backup_enabled /\ backup_dir # "custom" THEN dir \cup {BackupDirName} ELSE dir
    /\ files' = dir \ {BackupDirName}
    /\ pc' = "processing"
    /\ UNCHANGED << posix, backup_dir, renamed_files, skipped_files, backup_files, runs,
                    initial_files, last >>

\* one turn of the loop of process_directory
ProcessFile ==
    /\ pc = "processing"
    /\ \E file_path \in files :
          /\ rename_file(file_path)
          /\ files' = files \ {file_path}
    /\ UNCHANGED << posix, backup_dir, backup_location, pc, runs, initial_files >>

\* the loop of process_directory ends
ProcessDone ==
    /\ pc = "processing"
    /\ files = {}
    /\ pc' = "done"
    /\ UNCHANGED << dir, posix, backup_dir, backup_location, files, renamed_files,
                    skipped_files, backup_files, runs, initial_files, last >>

Next == ExtractDatetime \/ ExtractDate \/ RenameFile

NextDir == ProcessDirectory \/ ProcessFile \/ ProcessDone

Spec == Init /\ [][Next]_vars

SpecDir == InitDir /\ [][NextDir]_vars

\* ------------------------------------------------------------------ claims

AllDigits(s) == \A i \in DOMAIN s : s[i] \in Digit

StartsWith(s, prefix) == Len(prefix) <= Len(s) /\ SubSeq(s, 1, Len(prefix)) = prefix

\* year y, month m, day d name a day of the calendar
RealDate(y, m, d) ==
    /\ y >= 1
    /\ m \in 1..12
    /\ d >= 1
    /\ d <= (CASE m \in {1, 3, 5, 7, 8, 10, 12} -> 31
               [] m \in {4, 6, 9, 11} -> 30
               [] m = 2 -> IF y % 4 = 0 /\ (y % 100 # 0 \/ y % 400 = 0) THEN 29 ELSE 28)

\* s is YYYYMMDD and names a day of the calendar
IsDateStamp(s) ==
    /\ Len(s) = 8
    /\ AllDigits(s)
    /\ RealDate(ToInt(SubSeq(s, 1, 4)), ToInt(SubSeq(s, 5, 6)), ToInt(SubSeq(s, 7, 8)))

\* s is YYYYMMDDTHHMMSS or YYYYMMDDTHHMMSS.mmm, a day of the calendar and a
\* time of the day
IsDatetimeStamp(s) ==
    /\ Len(s) \in {15, 19}
    /\ IsDateStamp(SubSeq(s, 1, 8))
    /\ s[9] = "T"
    /\ AllDigits(SubSeq(s, 10, 15))
    /\ ToInt(SubSeq(s, 10, 11)) <= 23
    /\ ToInt(SubSeq(s, 12, 13)) <= 59
    /\ ToInt(SubSeq(s, 14, 15)) <= 59
    /\ (Len(s) = 19 => s[16] = "." /\ AllDigits(SubSeq(s, 17, 19)))

\* the leftmost match of the k-th date pattern in the file name, as a
\* stamp, when there is one
CandidateStamp(filename, k) ==
    LET t == SearchText(filename)
        m == ReSearch(date_patterns[k], t)
    IN  IF m.start = 0 THEN None ELSE DateStr(Interpret(m.groups, Group0(t, m)))

\* C1: every stamp extract_date returns is YYYYMMDD for a day of the
\* calendar, and every stamp extract_datetime returns is such a date with an
\* hour 00-23, a minute 00-59 and a second 00-59 (and an optional .mmm); a
\* candidate that is not is never returned.
C1_StampsAreCalendarValid ==
    /\ (last.op = "extract_date" /\ last.date_str # None => IsDateStamp(last.date_str))
    /\ (last.op = "extract_datetime" /\ last.date_str # None
           => IsDatetimeStamp(last.date_str))
    /\ (last.op = "rename_file" /\ last.date_str # None
           => IF last.has_time THEN IsDatetimeStamp(last.date_str)
              ELSE IsDateStamp(last.date_str))

\* extract_date returned a stamp for a name in which a pattern's candidate
\* is not a day of the calendar
C1_Witness ==
    /\ last.op = "extract_date"
    /\ last.date_str # None
    /\ \E k \in DOMAIN date_patterns :
          /\ CandidateStamp(last.filename, k) # None
          /\ ~IsDateStamp(CandidateStamp(last.filename, k))

\* the text after the last dot of a name that has a dot
AfterLastDot(s) == SubSeq(s, LastDot(s) + 1, Len(s))

\* C2: the new name rename_file computes starts with the stamp followed by
\* "_", and its extension is exactly the text after the last dot of the
\* original name.
C2_PrefixAndExtension ==
    (last.op = "rename_file" /\ last.new_filename # None)
        => /\ StartsWith(last.new_filename, last.date_str \o << "_" >>)
           /\ (HasDot(last.filename)
                  => /\ HasDot(last.new_filename)
                     /\ AfterLastDot(last.new_filename) = AfterLastDot(last.filename))

\* a name with two dots was renamed
C2_Witness ==
    /\ last.op = "rename_file"
    /\ last.new_filename # None
    /\ Cardinality({i \in DOMAIN last.filename : IsDot(last.filename[i])}) = 2
    /\ last.filename \notin dir

\* C3: for a name without a dot the new name is the stamp, "_" and the
\* cleaned stem, with no "." and no extension appended.
C3_NoDotNoExtension ==
    (last.op = "rename_file" /\ last.new_filename # None /\ ~HasDot(last.filename))
        => last.new_filename
              = last.date_str \o << "_" >> \o NameWithoutDate(last.filename, last.matched_str)

\* the order of the date patterns the claims state
PriorityOrder == << "ymd_sep", "dmy_sep", "yyyymmdd", "mmddyyyy", "d_mon_y", "mon_d_y" >>

MonthNumber(name) == CHOOSE n \in DOMAIN month_names : Upper(month_names[n]) = Upper(name)

\* the year, month and day of a match of the pattern p, as numbers
Reading(p, g) ==
    CASE p \in {"ymd_sep", "yyyymmdd"} -> << ToInt(g[1]), ToInt(g[2]), ToInt(g[3]) >>
      [] p = "dmy_sep" -> << ToInt(g[3]), ToInt(g[2]), ToInt(g[1]) >>
      [] p = "mmddyyyy" -> IF ToInt(g[1]) \in 1..12
                           THEN << ToInt(g[3]), ToInt(g[1]), ToInt(g[2]) >>
                           ELSE << ToInt(g[3]), ToInt(g[2]), ToInt(g[1]) >>
      [] p = "d_mon_y" -> << 2000 + ToInt(g[3]), MonthNumber(g[2]), ToInt(g[1]) >>
      [] p = "mon_d_y" -> << 2000 + ToInt(g[3]), MonthNumber(g[1]), ToInt(g[2]) >>

\* the leftmost match of the pattern p in the name, when it is a day of the
\* calendar
ValidMatch(p, filename) ==
    LET m == ReSearch(p, SearchText(filename))
    IN  IF m.start = 0 THEN NoMatch
        ELSE LET r == Reading(p, m.groups)
             IN  IF RealDate(r[1], r[2], r[3]) THEN m ELSE NoMatch

StampNumber(r) == r[1] * 10000 + r[2] * 100 + r[3]

\* C4: extract_date returns the match of the first pattern, in the order
\* YYYY-sep-MM-sep-DD, DD-sep-MM-sep-YYYY, YYYYMMDD, MMDDYYYY, DD-Month-YY,
\* Month-DD-YY, whose match is a day of the calendar, wherever the matches
\* sit in the name, and (none, none) when no pattern has such a match.
C4_FirstValidPatternWins ==
    last.op = "extract_date"
        => LET valid == {k \in DOMAIN PriorityOrder :
                            ValidMatch(PriorityOrder[k], last.filename).start # 0}
           IN  IF valid = {}
               THEN last.date_str = None /\ last.matched_str = None
               ELSE LET p == PriorityOrder[Min(valid)]
                        m == ValidMatch(p, last.filename)
                    IN  /\ Len(last.date_str) = 8
                        /\ ToInt(last.date_str) = StampNumber(Reading(p, m.groups))
                        /\ last.matched_str = Group0(SearchText(last.filename), m)

\* two patterns have a valid match, and the one returned sits to the right
\* of the other
C4_Witness ==
    /\ last.op = "extract_date"
    /\ last.date_str # None
    /\ \E k1, k2 \in DOMAIN PriorityOrder :
          /\ k1 < k2
          /\ ValidMatch(PriorityOrder[k1], last.filename).start # 0
          /\ \A k \in 1..(k1 - 1) : ValidMatch(PriorityOrder[k], last.filename).start = 0
          /\ ValidMatch(PriorityOrder[k2], last.filename).start # 0
          /\ ValidMatch(PriorityOrder[k2], last.filename).stop
                < ValidMatch(PriorityOrder[k1], last.filename).start

\* C5: rename_file uses the stamp and matched text of extract_datetime
\* whenever it finds a datetime, those of extract_date only when it finds
\* none, and when neither finds a stamp the file keeps its name and is
\* appended to the skipped log, not to the renamed log.
C5_DatetimeFirstThenDateElseSkip ==
    last.op = "rename_file"
        => LET dt == extract_datetime(last.filename)
               d == extract_date(last.filename)
           IN  /\ dt.datetime_str # None
                     => /\ last.date_str = dt.datetime_str
                        /\ last.matched_str = dt.matched_str
                        /\ last.has_time
               /\ dt.datetime_str = None
                     => /\ last.date_str = d.date_str
                        /\ last.matched_str = d.matched_str
                        /\ ~last.has_time
               /\ (dt.datetime_str = None /\ d.date_str = None)
                     => /\ last.new_filename = None
                        /\ last.filename \in dir
                        /\ skipped_files # << >>
                        /\ skipped_files[Len(skipped_files)] = last.filename
                        /\ \A i \in DOMAIN renamed_files : renamed_files[i][1] # last.filename
               /\ (dt.datetime_str # None \/ d.date_str # None)
                     => /\ renamed_files # << >>
                        /\ renamed_files[Len(renamed_files)]
                              = << last.filename, last.new_filename >>
                        /\ \A i \in DOMAIN skipped_files : skipped_files[i] # last.filename
               /\ Len(renamed_files) + Len(skipped_files) = runs

\* a file was renamed by its datetime although extract_date finds a date too
C5_Witness ==
    /\ last.op = "rename_file"
    /\ last.has_time
    /\ extract_date(last.filename).date_str # None
    /\ extract_date(last.filename).date_str # last.date_str

\* C6: process_directory leaves the number of entries of the directory
\* unchanged.
C6_EntryCountUnchanged ==
    pc = "done" => Cardinality(dir) = Cardinality(initial_files)

\* C7: renaming is not idempotent.  Applied to a name that a rename has
\* produced, rename_file finds a date again: a datetime or a date with
\* separators somewhere in the name, or else the eight digits of the
\* leading stamp; and there are such names whose second new name differs
\* from the first (C7_Witness).
C7_RenamedNameMatchesAgain ==
    (last.op = "rename_file" /\ runs >= 2 /\ renamed_files # << >>)
        => LET lead == SubSeq(last.filename, 1, 8)
           IN  /\ last.date_str # None
               /\ Len(renamed_files) = runs
               /\ renamed_files[runs - 1][2] = last.filename
               /\ \/ last.has_time
                  \/ \E i \in DOMAIN last.matched_str : last.matched_str[i] \in {"-", "_"}
                  \/ (last.matched_str = lead /\ last.date_str = lead)

\* the second application matched the leading stamp and gave another name
C7_Witness ==
    /\ last.op = "rename_file"
    /\ runs = 2
    /\ Len(renamed_files) = 2
    /\ last.matched_str = SubSeq(last.filename, 1, 8)
    /\ renamed_files[2][2] # renamed_files[1][2]

\* every syntactic match of the datetime pattern in the name
DatetimeMatches(filename) ==
    LET t == SearchText(filename)
    IN  {i \in DOMAIN t : MatchDatetime(t, i).start # 0}

ValidDatetimeAt(filename, i) ==
    LET g == MatchDatetime(SearchText(filename), i).groups
    IN  /\ RealDate(ToInt(g[1]), ToInt(g[2]), ToInt(g[3]))
        /\ ToInt(g[4]) <= 23 /\ ToInt(g[5]) <= 59 /\ ToInt(g[6]) <= 59

\* C8: when a match of the datetime pattern fails validation,
\* extract_datetime goes on to later occurrences in the same name: a name
\* with an invalid candidate followed by a valid one returns the valid one.
C8_SearchContinuesAfterInvalid ==
    last.op = "extract_datetime"
        => \A i \in DatetimeMatches(last.filename) :
              (/\ ValidDatetimeAt(last.filename, i)
               /\ \A j \in DatetimeMatches(last.filename) :
                     j < i => ~ValidDatetimeAt(last.filename, j))
              => LET t == SearchText(last.filename)
                     m == MatchDatetime(t, i)
                 IN  /\ last.has_time
                     /\ last.matched_str = Group0(t, m)
                     /\ StartsWith(last.date_str, m.groups[1] \o m.groups[2] \o m.groups[3])

\* the match extract_date or extract_datetime returned, in the padded name
ReturnedMatch(op, filename) ==
    IF op = "extract_datetime"
    THEN ReSearch("yyyymmdd_hhmmss", SearchText(filename))
    ELSE LET valid == {k \in DOMAIN PriorityOrder :
                          ValidMatch(PriorityOrder[k], filename).start # 0}
         IN  ValidMatch(PriorityOrder[Min(valid)], filename)

\* C9: no matcher matches inside a longer run of digits: the character
\* before the first digit of a returned match and the character after its
\* last digit are not digits.
C9_NoMatchInsideDigitRun ==
    (last.op \in {"extract_date", "extract_datetime"} /\ last.date_str # None)
        => LET t == SearchText(last.filename)
               m == ReturnedMatch(last.op, last.filename)
               ds == {i \in m.start..m.stop : IsDigitAt(t, i)}
           IN  /\ ~IsDigitAt(t, Min(ds) - 1)
               /\ ~IsDigitAt(t, (CHOOSE x \in ds : \A y \in ds : y <= x) + 1)

\* C10: with no valid date with separators in the name, the leftmost
\* isolated run of eight digits is returned as YYYYMMDD when that is a day of
\* the calendar; otherwise as MMDDYYYY when its first two digits are 1..12
\* and as DDMMYYYY when they are not, when that reading is a day of the
\* calendar; and the run is not returned when the reading is not.
C10_EightDigitRun ==
    (/\ last.op = "extract_date"
     /\ ValidMatch("ymd_sep", last.filename).start = 0
     /\ ValidMatch("dmy_sep", last.filename).start = 0
     /\ ReSearch("yyyymmdd", SearchText(last.filename)).start # 0)
        => LET t == SearchText(last.filename)
               m == ReSearch("yyyymmdd", t)
               run == Group0(t, m)
               a == ToInt(SubSeq(run, 1, 2))
               b == ToInt(SubSeq(run, 3, 4))
               y == ToInt(SubSeq(run, 5, 8))
               returned(yy, mm, dd) == /\ last.matched_str = run
                                       /\ Len(last.date_str) = 8
                                       /\ ToInt(last.date_str) = yy * 10000 + mm * 100 + dd
           IN  IF RealDate(ToInt(SubSeq(run, 1, 4)), ToInt(SubSeq(run, 5, 6)),
                           ToInt(SubSeq(run, 7, 8)))
               THEN last.date_str = run /\ last.matched_str = run
               ELSE IF a \in 1..12
               THEN IF RealDate(y, a, b) THEN returned(y, a, b) ELSE last.matched_str # run
               ELSE IF RealDate(y, b, a) THEN returned(y, b, a) ELSE last.matched_str # run

\* a run whose first two digits are no month was returned as DDMMYYYY
C10_Witness ==
    /\ last.op = "extract_date"
    /\ last.date_str # None
    /\ Len(last.matched_str) = 8
    /\ AllDigits(last.matched_str)
    /\ ToInt(SubSeq(last.matched_str, 1, 2)) > 12
    /\ SubSeq(last.date_str, 7, 8) = SubSeq(last.matched_str, 1, 2)

\* the stem after the k-th removal strategy alone
Strategy(k, stem, matched) ==
    CASE k = 1 -> ReSub(stem, matched, 1, 1, << "_" >>)
      [] k = 2 -> ReSub(stem, matched, 1, 0, << >>)
      [] k = 3 -> ReSub(stem, matched, 0, 1, << >>)
      [] k = 4 -> ReSub(stem, matched, 0, 0, << >>)

\* the strategies that change the stem
Changing(stem, matched) == {k \in 1..4 : Strategy(k, stem, matched) # stem}

\* the stem after the first strategy that changes it, the stem itself when
\* none does
FirstChange(stem, matched) ==
    IF Changing(stem, matched) = {} THEN stem
    ELSE Strategy(Min(Changing(stem, matched)), stem, matched)

\* the maximal runs of characters other than "-" and "_", in order
RECURSIVE Words(_)
Words(s) ==
    IF s = << >> THEN << >>
    ELSE IF s[1] \in {"-", "_"} THEN Words(Tail(s))
    ELSE LET n == IF \E i \in DOMAIN s : s[i] \in {"-", "_"}
                  THEN Min({i \in DOMAIN s : s[i] \in {"-", "_"}}) - 1
                  ELSE Len(s)
         IN  << SubSeq(s, 1, n) >> \o Words(SubSeq(s, n + 1, Len(s)))

\* the words joined by single underscores
RECURSIVE JoinWords(_)
JoinWords(ws) ==
    IF ws = << >> THEN << >>
    ELSE IF Len(ws) = 1 THEN ws[1]
    ELSE ws[1] \o << "_" >> \o JoinWords(Tail(ws))

\* C11: the matched text is removed from the stem by the first of the four
\* strategies, in their order, that changes the stem, and by no later one;
\* the new name is the stamp, "_", that stem with every run of "-" and "_"
\* made one "_" and the leading and trailing "_" trimmed, ".", and the
\* extension.
C11_FirstChangingStrategyOnly ==
    (last.op = "rename_file" /\ last.new_filename # None)
        => last.new_filename
              = last.date_str \o << "_" >>
                  \o JoinWords(Words(FirstChange(NameWithoutExt(last.filename),
                                                 last.matched_str)))
                  \o << "." >> \o Ext(last.filename)

\* a file was renamed whose stem the first or the second strategy left
\* alone, and which a later strategy would have changed once more
C11_Witness ==
    /\ last.op = "rename_file"
    /\ last.new_filename # None
    /\ LET stem == NameWithoutExt(last.filename)
           ch == Changing(stem, last.matched_str)
       IN  /\ ch # {}
           /\ Min(ch) \in {2, 3}
           /\ Strategy(4, FirstChange(stem, last.matched_str), last.matched_str)
                 # FirstChange(stem, last.matched_str)

\* the number of dots of a name
Dots(s) == Cardinality({i \in DOMAIN s : s[i] = "."})

\* the text before the first dot of a name that has a dot
BeforeFirstDot(s) == SubSeq(s, 1, Min({i \in DOMAIN s : s[i] = "."}) - 1)

\* the text before the last dot of a name that has a dot
BeforeLastDot(s) == SubSeq(s, 1, LastDot(s) - 1)

\* the new name when the matched text is removed from the given stem and
\* the extension is the text after the last dot of the name
NameFromStem(stem, filename, date_str, matched) ==
    date_str \o << "_" >> \o JoinWords(Words(FirstChange(stem, matched)))
        \o << "." >> \o AfterLastDot(filename)

\* C12: for a name with more than one dot, the stem the matched text is
\* removed from is the text before the first dot, and the extension is the
\* text after the last dot.
C12_StemBeforeFirstDot ==
    (last.op = "rename_file" /\ last.new_filename # None /\ Dots(last.filename) > 1)
        => last.new_filename
              = NameFromStem(BeforeFirstDot(last.filename), last.filename,
                             last.date_str, last.matched_str)

\* C12, as the code has it: for a name with more than one dot, the stem the
\* matched text is removed from is the text before the last dot, and the
\* extension is the text after the last dot.
C12_StemBeforeLastDot ==
    (last.op = "rename_file" /\ last.new_filename # None /\ Dots(last.filename) > 1)
        => last.new_filename
              = NameFromStem(BeforeLastDot(last.filename), last.filename,
                             last.date_str, last.matched_str)

\* a name with more than one dot was renamed, and the text between its
\* first and its last dot is kept in the new name
C12_Witness ==
    /\ last.op = "rename_file"
    /\ last.new_filename # None
    /\ Dots(last.filename) > 1
    /\ last.filename \notin dir
    /\ last.new_filename
          # NameFromStem(BeforeFirstDot(last.filename), last.filename,
                         last.date_str, last.matched_str)

====
